---- MODULE Spec2Model ----
(***************************************************************************)
(* Model of src/src/PlaylistParser/XSPF.ts: the XSPF playlist parser.      *)
(*                                                                         *)
(* A string is a sequence of one-character strings.  A parsed document is  *)
(* a sequence of element nodes in document (pre-)order; node k is the      *)
(* record [tag, parent, text], parent 0 being the Document itself.  The    *)
(* text of an element is the character data that precedes its first child  *)
(* element.  Text and comment nodes are not listed as children: neither    *)
(* loop of the parser reacts to a child without the tag names it tests.    *)
(***************************************************************************)
EXTENDS Integers, Sequences, FiniteSets, TLC

VARIABLES doc, pc, outcome, thisStreams, streams, playlistIdx, trackList,
          defaultTitle, trackStreams, trackIdx, childIdx,
          url, title, metas, description, duration

vars == <<doc, pc, outcome, thisStreams, streams, playlistIdx, trackList,
          defaultTitle, trackStreams, trackIdx, childIdx,
          url, title, metas, description, duration>>

(***************************************************************************)
(* Bounds of the checked inputs.                                           *)
(***************************************************************************)
MaxNodes == 4
MaxChildren == 2
MaxDurLen == 3
MaxAnnotLen == 4
MaxPad == 1

(***************************************************************************)
(* Characters.                                                             *)
(***************************************************************************)
UpperChars == <<"A","B","C","D","E","F","G","H","I","J","K","L","M",
                "N","O","P","Q","R","S","T","U","V","W","X","Y","Z">>
LowerChars == <<"a","b","c","d","e","f","g","h","i","j","k","l","m",
                "n","o","p","q","r","s","t","u","v","w","x","y","z">>
DigitChars == <<"0","1","2","3","4","5","6","7","8","9">>
WhiteSpace == {" ", "\t", "\n", "\r"}
LineBreaks == {"\n", "\r"}

IndexOf(c, table) == CHOOSE i \in 1..Len(table) : table[i] = c
InTable(c, table) == \E i \in 1..Len(table) : table[i] = c

LowerChar(c) == IF InTable(c, UpperChars) THEN LowerChars[IndexOf(c, UpperChars)] ELSE c
UpperChar(c) == IF InTable(c, LowerChars) THEN UpperChars[IndexOf(c, LowerChars)] ELSE c

\* String.prototype.toLocaleLowerCase
toLocaleLowerCase(s) == [i \in 1..Len(s) |-> LowerChar(s[i])]

RECURSIVE TrimStart(_)
TrimStart(s) == IF s # <<>> /\ Head(s) \in WhiteSpace THEN TrimStart(Tail(s)) ELSE s

RECURSIVE TrimEnd(_)
TrimEnd(s) ==
  IF s # <<>> /\ s[Len(s)] \in WhiteSpace THEN TrimEnd(SubSeq(s, 1, Len(s) - 1)) ELSE s

\* String.prototype.trim
trim(s) == TrimEnd(TrimStart(s))

\* All strings of at most n characters over the alphabet A.
RECURSIVE StringsUpTo(_, _)
StringsUpTo(A, n) ==
  IF n = 0 THEN {<<>>}
  ELSE LET shorter == StringsUpTo(A, n - 1)
       IN  shorter \cup {Append(s, c) : s \in shorter, c \in A}

(***************************************************************************)
(* String operations the parser relies on.                                 *)
(***************************************************************************)
Contains(s, c) == \E i \in 1..Len(s) : s[i] = c

FirstIndex(s, C) == CHOOSE i \in 1..Len(s) : s[i] \in C /\ \A j \in 1..(i - 1) : s[j] \notin C

\* String.prototype.split with a one-character separator
RECURSIVE split(_, _)
split(s, sep) ==
  IF ~Contains(s, sep) THEN <<s>>
  ELSE LET i == FirstIndex(s, {sep})
       IN  <<SubSeq(s, 1, i - 1)>> \o split(SubSeq(s, i + 1, Len(s)), sep)

\* Array.prototype.join with a one-character separator
RECURSIVE join(_, _)
join(parts, sep) ==
  IF parts = <<>> THEN <<>>
  ELSE IF Len(parts) = 1 THEN parts[1]
  ELSE parts[1] \o <<sep>> \o join(Tail(parts), sep)

\* content.split(/[\r\n]+/): the separators are the maximal runs of line breaks
RECURSIVE splitLines(_)
splitLines(s) ==
  IF \A i \in 1..Len(s) : s[i] \notin LineBreaks THEN <<s>>
  ELSE LET i == FirstIndex(s, LineBreaks)
           j == CHOOSE k \in i..Len(s) :
                  /\ \A m \in i..k : s[m] \in LineBreaks
                  /\ (k = Len(s) \/ s[k + 1] \notin LineBreaks)
       IN  <<SubSeq(s, 1, i - 1)>> \o splitLines(SubSeq(s, j + 1, Len(s)))

HasPrefix(s, p) == Len(s) >= Len(p) /\ SubSeq(s, 1, Len(p)) = p

HttpPrefix == <<"h","t","t","p",":","/","/">>
HttpsPrefix == <<"h","t","t","p","s",":","/","/">>

\* value.match(/^https?:\/\//i): the i flag compares letters regardless of case
matchHttp(value) ==
  \/ HasPrefix(toLocaleLowerCase(value), HttpPrefix)
  \/ HasPrefix(toLocaleLowerCase(value), HttpsPrefix)

\* parseInt(text, 10): leading white space, an optional sign, then the longest
\* run of decimal digits; NaN when that run is empty.
RECURSIVE DigitsValue(_, _)
DigitsValue(s, acc) ==
  IF s = <<>> \/ ~InTable(Head(s), DigitChars) THEN acc
  ELSE DigitsValue(Tail(s), 10 * acc + (IndexOf(Head(s), DigitChars) - 1))

parseInt(text) ==
  LET t == TrimStart(text)
      signed == t # <<>> /\ Head(t) \in {"-", "+"}
      digits == IF signed THEN Tail(t) ELSE t
      magnitude == DigitsValue(digits, 0)
  IN  IF digits = <<>> \/ ~InTable(Head(digits), DigitChars)
      THEN [nan |-> TRUE, val |-> 0]
      ELSE [nan |-> FALSE,
            val |-> IF signed /\ Head(t) = "-" THEN 0 - magnitude ELSE magnitude]

isNaN(value) == value.nan

(***************************************************************************)
(* Numbers of the stream record are rationals num/den with den > 0.        *)
(***************************************************************************)
Rational(n, d) == [num |-> n, den |-> d]
RatEq(a, b) == a.num * b.den = b.num * a.den
RatNonNegative(a) == a.num >= 0

MillisPerSecond == 1000
UnknownDuration == Rational(0 - 1, 1)

\* isNaN(value) ? -1 : (value / 1000)
durationOf(value) ==
  IF isNaN(value) THEN UnknownDuration ELSE Rational(value.val, MillisPerSecond)

(***************************************************************************)
(* Utils.camelize: separator-delimited words joined, the first word's      *)
(* initial in lower case and every later word's initial in upper case.     *)
(***************************************************************************)
WordSeparators == {" ", "-", "_"}

RECURSIVE CamelizeFrom(_, _, _)
CamelizeFrom(s, first, boundary) ==
  IF s = <<>> THEN <<>>
  ELSE IF Head(s) \in WordSeparators THEN CamelizeFrom(Tail(s), first, TRUE)
  ELSE IF first THEN <<LowerChar(Head(s))>> \o CamelizeFrom(Tail(s), FALSE, FALSE)
  ELSE IF boundary THEN <<UpperChar(Head(s))>> \o CamelizeFrom(Tail(s), FALSE, FALSE)
  ELSE <<Head(s)>> \o CamelizeFrom(Tail(s), FALSE, FALSE)

camelize(s) == CamelizeFrom(s, TRUE, FALSE)

(***************************************************************************)
(* The annotation sub-format.  A metas object is a function from its own   *)
(* keys to their values.                                                   *)
(***************************************************************************)
EmptyMetas == [k \in {} |-> <<>>]

SetMeta(m, key, value) ==
  [k \in (DOMAIN m) \cup {key} |-> IF k = key THEN value ELSE m[k]]

extractLine_SecondPartOnly(m, line) ==
  IF Contains(line, ":")
  THEN LET parts == split(line, ":")
       IN  SetMeta(m, camelize(trim(parts[1])), trim(parts[2]))
  ELSE m

\* the body of the forEach callback of extractMetasFromAnnotation
extractLine(m, line) ==
  IF Contains(line, ":")
  THEN LET parts == split(line, ":")
       IN  SetMeta(m, camelize(trim(parts[1])), trim(join(Tail(parts), ":")))
  ELSE m

RECURSIVE ExtractLines(_, _)
ExtractLines(m, lines) ==
  IF lines = <<>> THEN m ELSE ExtractLines(extractLine(m, Head(lines)), Tail(lines))

extractMetasFromAnnotation(content) == ExtractLines(EmptyMetas, splitLines(content))

\* metas.<key>: undefined when the object has no such key
HasMeta(m, key) == key \in DOMAIN m
BitrateKey == <<"b","i","t","r","a","t","e">>
ContentTypeKey == <<"c","o","n","t","e","n","t","T","y","p","e">>
StreamDescriptionKey ==
  <<"s","t","r","e","a","m","D","e","s","c","r","i","p","t","i","o","n">>

\* typeof of a value stored in metas: extractMetasFromAnnotation stores only
\* results of String.prototype.trim
typeof(v) == "string"

(***************************************************************************)
(* The element tree that DOMParser.parseFromString hands back.             *)
(***************************************************************************)
Node(tag, parent, text) == [tag |-> tag, parent |-> parent, text |-> text]

DocumentNode == 0
null == 0

RECURSIVE IsAncestor(_, _, _)
IsAncestor(d, a, k) ==
  k # DocumentNode /\ (d[k].parent = a \/ IsAncestor(d, a, d[k].parent))

NodeIds(d) == [i \in 1..Len(d) |-> i]

\* Element.getElementsByTagName / Document.getElementsByTagName: every
\* descendant with the tag, in document order
getElementsByTagName(d, n, tag) ==
  LET Test(k) == IsAncestor(d, n, k) /\ d[k].tag = tag
  IN  SelectSeq(NodeIds(d), Test)

\* Node.childNodes, elements only
childNodes(d, n) ==
  LET Test(k) == d[k].parent = n
  IN  SelectSeq(NodeIds(d), Test)

\* Node.textContent: the character data of the element and of its descendants,
\* in document order
RECURSIVE TextFrom(_, _, _)
TextFrom(d, n, k) ==
  IF k > Len(d) THEN <<>>
  ELSE (IF k = n \/ IsAncestor(d, n, k) THEN d[k].text ELSE <<>>) \o TextFrom(d, n, k + 1)

textContent(d, n) == TextFrom(d, n, n)

(***************************************************************************)
(* APlaylistParser.createDefaultStream: a record with no bitrate and no    *)
(* MIME type yet.  An optional field is the set of its values.             *)
(***************************************************************************)
createDefaultStream ==
  [title |-> <<>>, description |-> <<>>, duration |-> UnknownDuration,
   streamUrl |-> <<>>, metas |-> EmptyMetas, bitrate |-> {}, mimeType |-> {}]

(***************************************************************************)
(* parsePlaylist, the scan of one <playlist>'s children (lines 54-73).     *)
(***************************************************************************)
RECURSIVE ScanPlaylist(_, _, _)
ScanPlaylist(d, children, acc) ==
  IF children = <<>> THEN acc
  ELSE LET elem == Head(children)
           withTitle == IF d[elem].tag = "title"
                        THEN [acc EXCEPT !.defaultTitle = textContent(d, elem)]
                        ELSE acc
           withList == IF d[elem].tag = "trackList"
                       THEN [withTitle EXCEPT !.trackList = elem]
                       ELSE withTitle
       IN  ScanPlaylist(d, Tail(children), withList)

playlistScan(d, playlist) ==
  ScanPlaylist(d, childNodes(d, playlist), [trackList |-> null, defaultTitle |-> <<>>])

playlists == getElementsByTagName(doc, DocumentNode, "playlist")
tracks == getElementsByTagName(doc, trackList, "track")
track == tracks[trackIdx]
children == childNodes(doc, track)
child == children[childIdx]

(***************************************************************************)
(* parseTrackList, one child of a <track> (lines 101-125).                 *)
(***************************************************************************)
locationValue_CaseKept(d, c) == trim(textContent(d, c))

locationValue(d, c) == toLocaleLowerCase(trim(textContent(d, c)))

urlAfter_AnyScheme(d, c, u) ==
  IF d[c].tag = "location" THEN locationValue(d, c) ELSE u

urlAfter_InvalidClears(d, c, u) ==
  IF d[c].tag = "location"
  THEN (IF matchHttp(locationValue(d, c)) THEN locationValue(d, c) ELSE <<>>)
  ELSE u

urlAfter(d, c, u) ==
  IF d[c].tag = "location" /\ matchHttp(locationValue(d, c)) THEN locationValue(d, c) ELSE u

titleAfter(d, c, t) == IF d[c].tag = "title" THEN textContent(d, c) ELSE t

metasAfter(d, c, m) ==
  IF d[c].tag = "annotation" THEN extractMetasFromAnnotation(trim(textContent(d, c))) ELSE m

descriptionAfter(d, c, x) == IF d[c].tag = "info" THEN textContent(d, c) ELSE x

durationAfter(d, c, x) ==
  IF d[c].tag = "duration" THEN durationOf(parseInt(textContent(d, c))) ELSE x

(***************************************************************************)
(* parseTrackList, the end of one <track> (lines 126-144).                 *)
(***************************************************************************)
\* metas.streamDescription.length reads a property of undefined
throwsTypeError(desc, m) == Len(desc) > 0 /\ ~HasMeta(m, StreamDescriptionKey)

bitrateOf(m) ==
  IF HasMeta(m, BitrateKey) /\ m[BitrateKey] # <<>> /\ typeof(m[BitrateKey]) = "number"
  THEN {m[BitrateKey]}
  ELSE createDefaultStream.bitrate

mimeTypeOf(m) ==
  IF HasMeta(m, ContentTypeKey) /\ m[ContentTypeKey] # <<>>
  THEN {m[ContentTypeKey]}
  ELSE createDefaultStream.mimeType

descriptionOf(desc, m) ==
  IF Len(desc) > 0 /\ Len(m[StreamDescriptionKey]) > 0 THEN m[StreamDescriptionKey] ELSE desc

makeStream(u, t, m, desc, dur) ==
  [createDefaultStream EXCEPT
     !.title = t, !.description = descriptionOf(desc, m), !.duration = dur,
     !.streamUrl = u, !.metas = m, !.bitrate = bitrateOf(m), !.mimeType = mimeTypeOf(m)]

(***************************************************************************)
(* The documents the parser is run on.                                     *)
(***************************************************************************)
HttpE == <<"h","t","t","p",":","/","/","e">>
HttpsB == <<"h","t","t","p","s",":","/","/","b">>
PaddedUpperHttp == <<" "," ","H","T","T","P",":","/","/","E","x","a","m","p","l","e",".","c","o","m","/","s","t","r","e","a","m"," "," ">>
FtpX == <<"f","t","p",":","/","/","e","x","a","m","p","l","e",".","c","o","m","/","x">>
Bitrate128 == <<"b","i","t","r","a","t","e",":"," ","1","2","8">>
StreamDescB == <<"S","t","r","e","a","m"," ","D","e","s","c","r","i","p","t","i","o","n",":"," ","d","e","s","c"," ","B">>
BitrateAbcEmptyDesc == <<"b","i","t","r","a","t","e",":"," ","a","b","c","\n","S","t","r","e","a","m"," ","D","e","s","c","r","i","p","t","i","o","n",":">>
DescA == <<"d","e","s","c"," ","A">>
Ms5000 == <<"5","0","0","0">>
MsMinus5000 == <<"-","5","0","0","0">>
BitrateTwice == <<"B","i","t","r","a","t","e",":"," ","1","\n","b","i","t","r","a","t","e",":"," ","2",":","3">>
TitleT == <<"t">>
TitleP == <<"p">>

\* Trees of at most MaxNodes elements, of every shape and every tagging.
RECURSIVE OnPathToRoot(_, _, _)
OnPathToRoot(p, a, k) == k # DocumentNode /\ (a = k \/ OnPathToRoot(p, a, p[k]))

TreeShapes(n) ==
  {p \in [1..n -> 0..(n - 1)] :
     /\ p[1] = DocumentNode
     /\ \A i \in 2..n : OnPathToRoot(p, p[i], i - 1)}

TreeTags == {"playlist", "trackList", "track", "location"}

TreeDoc(p, tg) ==
  [i \in 1..Len(p) |-> Node(tg[i], p[i], IF tg[i] = "location" THEN HttpE ELSE <<>>)]

IsTreeDoc(d) ==
  \E n \in 1..MaxNodes : \E p \in TreeShapes(n), tg \in [1..n -> TreeTags] : d = TreeDoc(p, tg)

\* One titled playlist with one track whose children are kids.
TrackDoc(kids) ==
  <<Node("playlist", DocumentNode, <<>>), Node("title", 1, TitleP),
    Node("trackList", 1, <<>>), Node("track", 3, <<>>)>>
  \o [i \in 1..Len(kids) |-> Node(kids[i].tag, 4, kids[i].text)]

Kid(tag, text) == [tag |-> tag, text |-> text]

TitleKinds == {Kid("title", TitleT)}
LocationKinds ==
  {Kid("location", PaddedUpperHttp), Kid("location", FtpX), Kid("location", HttpsB)}
AnnotationKinds ==
  {Kid("annotation", Bitrate128), Kid("annotation", StreamDescB),
   Kid("annotation", BitrateAbcEmptyDesc), Kid("annotation", BitrateTwice)}
InfoKinds == {Kid("info", <<>>), Kid("info", DescA)}
DurationKinds == {Kid("duration", Ms5000), Kid("duration", MsMinus5000)}

ChildKinds == TitleKinds \cup LocationKinds \cup AnnotationKinds \cup InfoKinds \cup DurationKinds

\* Tracks of at most MaxChildren children, of every kind in every order.
IsTrackDoc(d) ==
  \E n \in 0..MaxChildren : \E kids \in [1..n -> ChildKinds] : d = TrackDoc(kids)

\* Tracks with at most one child of each tag, in every combination.
Optional(kinds) == {<<>>} \cup {<<k>> : k \in kinds}

IsFieldsDoc(d) ==
  \E t \in Optional(TitleKinds), l \in Optional(LocationKinds),
     a \in Optional(AnnotationKinds), i \in Optional(InfoKinds),
     u \in Optional(DurationKinds) :
     d = TrackDoc(t \o l \o a \o i \o u)

\* Every short duration text.
DurAlphabet == {" ", "-", "5", "0", "a"}

IsDurDoc(d) ==
  \E t \in StringsUpTo(DurAlphabet, MaxDurLen) :
     d = TrackDoc(<<Kid("location", HttpE), Kid("duration", t)>>)

\* Every short annotation text.
AnnotAlphabet == {"a", "B", " ", ":", "\n"}

IsAnnotDoc(d) ==
  \E t \in StringsUpTo(AnnotAlphabet, MaxAnnotLen) :
     d = TrackDoc(<<Kid("location", HttpE), Kid("annotation", t)>>)

\* Location texts: a core between two runs of white space.
LocCores ==
  {<<"h","t","t","p",":","/","/","e">>,
   <<"H","T","T","P",":","/","/","E">>,
   <<"H","t","T","p","S",":","/","/","e">>,
   <<"h","t","t","p","s",":","/","/">>,
   <<"f","t","p",":","/","/","e">>,
   <<"h","t","t","p",":","/","e">>,
   <<"h","t","t"," ","p",":","/","/","e">>,
   <<>>,
   <<"x","h","t","t","p",":","/","/","e">>,
   <<"h","t","t","p","s","s",":","/","/","e">>,
   <<"h","t","t","p","/","/","e">>}

Pads == StringsUpTo({" ", "\n"}, MaxPad)

IsLocDoc(d) ==
  \E l \in Pads, c \in LocCores, r \in Pads : d = TrackDoc(<<Kid("location", l \o c \o r)>>)

\* A playlist inside another playlist's trackList, and two playlists in a row.
NestedPlaylistDoc ==
  <<Node("playlist", DocumentNode, <<>>), Node("trackList", 1, <<>>),
    Node("playlist", 2, <<>>), Node("trackList", 3, <<>>),
    Node("track", 4, <<>>), Node("location", 5, HttpE)>>

TwoPlaylistsDoc ==
  <<Node("radio", DocumentNode, <<>>),
    Node("playlist", 1, <<>>), Node("trackList", 2, <<>>),
    Node("track", 3, <<>>), Node("location", 4, HttpE),
    Node("track", 3, <<>>), Node("location", 6, FtpX),
    Node("playlist", 1, <<>>), Node("title", 8, TitleP), Node("trackList", 8, <<>>),
    Node("track", 10, <<>>), Node("location", 11, HttpsB),
    Node("track", 10, <<>>), Node("title", 13, TitleT), Node("location", 13, PaddedUpperHttp)>>

\* What the XML parser returns for text that is not well-formed.
ParserErrorDoc ==
  <<Node("parsererror", DocumentNode, <<"e","r","r","o","r">>)>>

ParserErrorInPlaylistDoc ==
  <<Node("playlist", DocumentNode, <<>>), Node("trackList", 1, <<>>),
    Node("track", 2, <<>>), Node("location", 3, HttpE), Node("parsererror", 1, <<>>)>>

ExampleDocs == {NestedPlaylistDoc, TwoPlaylistsDoc, ParserErrorDoc, ParserErrorInPlaylistDoc}

IsDoc(d) ==
  \/ IsTreeDoc(d)
  \/ IsTrackDoc(d)
  \/ IsFieldsDoc(d)
  \/ IsDurDoc(d)
  \/ IsAnnotDoc(d)
  \/ IsLocDoc(d)
  \/ d \in ExampleDocs

(***************************************************************************)
(* The state: the parsed document, the position in parse(), the promise,   *)
(* the streams field, and the locals of parsePlaylist and parseTrackList.  *)
(***************************************************************************)
Pending == [state |-> "pending", error |-> "", value |-> <<>>]
Rejected(message) == [state |-> "rejected", error |-> message, value |-> <<>>]
Resolved(list) == [state |-> "resolved", error |-> "", value |-> list]

Init ==
  /\ IsDoc(doc)
  /\ pc = "parse"
  /\ outcome = Pending
  /\ thisStreams = <<>>
  /\ streams = <<>>
  /\ playlistIdx = 0
  /\ trackList = null
  /\ defaultTitle = <<>>
  /\ trackStreams = <<>>
  /\ trackIdx = 0
  /\ childIdx = 0
  /\ url = <<>>
  /\ title = <<>>
  /\ metas = EmptyMetas
  /\ description = <<>>
  /\ duration = UnknownDuration

trackLocals == <<url, title, metas, description, duration>>
listLocals == <<trackList, defaultTitle, trackStreams, trackIdx>>

\* parse, lines 30-35: the XML parser ran; a parsererror element is the report
\* of text that is not well-formed
Parse ==
  /\ pc = "parse"
  /\ IF Len(getElementsByTagName(doc, DocumentNode, "parsererror")) # 0
     THEN /\ outcome' = Rejected("XML error")
          /\ pc' = "done"
          /\ UNCHANGED <<streams, playlistIdx>>
     ELSE /\ streams' = <<>>
          /\ playlistIdx' = 1
          /\ pc' = "playlists"
          /\ UNCHANGED outcome
  /\ UNCHANGED <<doc, thisStreams, listLocals, childIdx, trackLocals>>

\* parsePlaylist, lines 53-75: the next <playlist>, up to the call of parseTrackList
PlaylistBegin ==
  /\ pc = "playlists"
  /\ playlistIdx <= Len(playlists)
  /\ LET found == playlistScan(doc, playlists[playlistIdx])
     IN  /\ trackList' = found.trackList
         /\ defaultTitle' = found.defaultTitle
         /\ IF found.trackList # null
            THEN /\ trackStreams' = <<>>
                 /\ trackIdx' = 1
                 /\ pc' = "tracks"
                 /\ UNCHANGED playlistIdx
            ELSE /\ playlistIdx' = playlistIdx + 1
                 /\ UNCHANGED <<trackStreams, trackIdx, pc>>
  /\ UNCHANGED <<doc, outcome, thisStreams, streams, childIdx, trackLocals>>

\* parseTrackList, lines 92-99: the next <track>, its accumulators set up
TrackBegin ==
  /\ pc = "tracks"
  /\ trackIdx <= Len(tracks)
  /\ url' = <<>>
  /\ title' = defaultTitle
  /\ metas' = EmptyMetas
  /\ description' = <<>>
  /\ duration' = UnknownDuration
  /\ childIdx' = 1
  /\ pc' = "children"
  /\ UNCHANGED <<doc, outcome, thisStreams, streams, playlistIdx, listLocals>>

\* parseTrackList, lines 101-125: the next child of the track
ChildStep ==
  /\ pc = "children"
  /\ childIdx <= Len(children)
  /\ url' = urlAfter(doc, child, url)
  /\ title' = titleAfter(doc, child, title)
  /\ metas' = metasAfter(doc, child, metas)
  /\ description' = descriptionAfter(doc, child, description)
  /\ duration' = durationAfter(doc, child, duration)
  /\ childIdx' = childIdx + 1
  /\ UNCHANGED <<doc, pc, outcome, thisStreams, streams, playlistIdx, listLocals>>

\* parseTrackList, lines 126-144: the track is skipped, or its stream is pushed,
\* or reading metas.streamDescription.length throws and the promise rejects
TrackEnd ==
  /\ pc = "children"
  /\ childIdx > Len(children)
  /\ IF Len(url) = 0
     THEN /\ trackIdx' = trackIdx + 1
          /\ pc' = "tracks"
          /\ UNCHANGED <<trackStreams, outcome>>
     ELSE IF throwsTypeError(description, metas)
     THEN /\ outcome' = Rejected("TypeError")
          /\ pc' = "done"
          /\ UNCHANGED <<trackStreams, trackIdx>>
     ELSE /\ trackStreams' =
               Append(trackStreams, makeStream(url, title, metas, description, duration))
          /\ trackIdx' = trackIdx + 1
          /\ pc' = "tracks"
          /\ UNCHANGED outcome
  /\ UNCHANGED <<doc, thisStreams, streams, playlistIdx, trackList, defaultTitle,
                 childIdx, trackLocals>>

\* parseTrackList returns (line 146) and parsePlaylist concatenates (line 75)
TrackListEnd ==
  /\ pc = "tracks"
  /\ trackIdx > Len(tracks)
  /\ streams' = streams \o trackStreams
  /\ playlistIdx' = playlistIdx + 1
  /\ pc' = "playlists"
  /\ UNCHANGED <<doc, outcome, thisStreams, listLocals, childIdx, trackLocals>>

\* parsePlaylist returns (line 80); parse, lines 36-40
ParseEnd ==
  /\ pc = "playlists"
  /\ playlistIdx > Len(playlists)
  /\ thisStreams' = streams
  /\ outcome' = IF Len(streams) = 0 THEN Rejected("No streams found") ELSE Resolved(streams)
  /\ pc' = "done"
  /\ UNCHANGED <<doc, streams, playlistIdx, listLocals, childIdx, trackLocals>>

Next == Parse \/ PlaylistBegin \/ TrackBegin \/ ChildStep \/ TrackEnd \/ TrackListEnd \/ ParseEnd

Spec == Init /\ [][Next]_vars

(***************************************************************************)
(* Vocabulary of the properties, stated on the document itself.            *)
(***************************************************************************)
WellFormed == \A k \in 1..Len(doc) : doc[k].tag # "parsererror"

SetMin(S) == CHOOSE x \in S : \A y \in S : x <= y
SetMax(S) == CHOOSE x \in S : \A y \in S : y <= x

\* s without its leading and trailing white space
Stripped(s) ==
  LET inked == {i \in 1..Len(s) : s[i] \notin WhiteSpace}
  IN  IF inked = {} THEN <<>> ELSE SubSeq(s, SetMin(inked), SetMax(inked))

LowerCased(s) == \A i \in 1..Len(s) : ~InTable(s[i], UpperChars)

HttpLocation(text) ==
  \E p \in {HttpPrefix, HttpsPrefix} :
    /\ Len(Stripped(text)) >= Len(p)
    /\ \A i \in 1..Len(p) : LowerChar(Stripped(text)[i]) = p[i]

NormalizedLocation(text) == [i \in 1..Len(Stripped(text)) |-> LowerChar(Stripped(text)[i])]

ElementsTagged(tag) == {k \in 1..Len(doc) : doc[k].tag = tag}
ChildrenTagged(n, tag) == {k \in ElementsTagged(tag) : doc[k].parent = n}

ValidLocationsOf(k) ==
  {c \in ChildrenTagged(k, "location") : HttpLocation(textContent(doc, c))}

HasValidLocation(k) == ValidLocationsOf(k) # {}
ExpectedUrl(k) == NormalizedLocation(textContent(doc, SetMax(ValidLocationsOf(k))))

ValidTracks == {k \in ElementsTagged("track") : HasValidLocation(k)}

\* the valid tracks that lie inside the trackList of a playlist (the last
\* trackList child, when a playlist has several)
ValidTracksOfPlaylists ==
  {k \in ValidTracks :
     \E q \in ElementsTagged("playlist") :
        /\ ChildrenTagged(q, "trackList") # {}
        /\ IsAncestor(doc, SetMax(ChildrenTagged(q, "trackList")), k)}

\* the tracks of the current trackList that are already behind the scan
TracksDone == SubSeq(tracks, 1, trackIdx - 1)
ValidTracksDone == SelectSeq(TracksDone, HasValidLocation)

\* a track of the current trackList has just been finished
TrackJustEnded == pc = "tracks" /\ trackIdx > 1
TrackJustPushed == TrackJustEnded /\ Len(url) > 0
LastPushed == trackStreams[Len(trackStreams)]

\* the children of the current track that are already behind the scan
DoneTagged(tag) == {j \in 1..(childIdx - 1) : doc[children[j]].tag = tag}

(***************************************************************************)
(* C1: for every well-formed document in which at least one track has a    *)
(* valid http:// or https:// location, parse() resolves with a non-empty   *)
(* list whose length is the number of tracks with a valid location across  *)
(* all playlists, whatever the other children of those tracks contain or   *)
(* omit.                                                                   *)
(***************************************************************************)
C1_ResolvesWithEveryValidTrack ==
  (pc = "done" /\ WellFormed /\ ValidTracksOfPlaylists # {}) =>
     /\ outcome.state = "resolved"
     /\ Len(outcome.value) > 0
     /\ Len(outcome.value) = Cardinality(ValidTracksOfPlaylists)

(***************************************************************************)
(* C2: every parse() call ends in exactly one of three outcomes: rejection *)
(* with 'XML error', rejection with 'No streams found', or resolution with *)
(* the stream list; no other failure kind occurs and no stream list is     *)
(* delivered together with an error.                                       *)
(***************************************************************************)
C2_ThreeOutcomes ==
  pc = "done" =>
     \/ outcome = Rejected("XML error")
     \/ outcome = Rejected("No streams found")
     \/ outcome.state = "resolved" /\ outcome.error = "" /\ Len(outcome.value) > 0

(***************************************************************************)
(* C3: a well-formed document with no playlist element, with playlists     *)
(* that have no trackList, or whose tracks all lack a valid HTTP(S)        *)
(* location is rejected with 'No streams found'; a track without a valid   *)
(* location is skipped without an error of its own, and that rejection is  *)
(* made only when the collected list is empty.                             *)
(***************************************************************************)
NothingToCollect ==
  \/ ElementsTagged("playlist") = {}
  \/ \A q \in ElementsTagged("playlist") : ChildrenTagged(q, "trackList") = {}
  \/ ValidTracks = {}

C3_NoStreamsFound ==
  /\ (pc = "done" /\ WellFormed /\ NothingToCollect) => outcome = Rejected("No streams found")
  /\ (TrackJustEnded /\ ~HasValidLocation(tracks[trackIdx - 1])) =>
        /\ outcome = Pending
        /\ Len(trackStreams) = Len(ValidTracksDone)
  /\ outcome.error = "No streams found" => (Len(streams) = 0 /\ Len(thisStreams) = 0)

C3_Witness ==
  /\ pc = "done"
  /\ outcome = Rejected("No streams found")
  /\ \E k \in ElementsTagged("track") :
        /\ ChildrenTagged(k, "location") # {}
        /\ ~HasValidLocation(k)

(***************************************************************************)
(* C4: every descriptor has a streamUrl that is non-empty, trimmed,        *)
(* lower-cased and begins with http:// or https://; a descriptor is made   *)
(* only for a track with a valid location ('  HTTP://Example.com/stream  ' *)
(* is accepted as 'http://example.com/stream', 'ftp://example.com/x' drops *)
(* the track).                                                             *)
(***************************************************************************)
ExampleUrl == <<"h","t","t","p",":","/","/","e","x","a","m","p","l","e",".","c","o","m","/","s","t","r","e","a","m">>

UrlWellFormed(u) ==
  /\ Len(u) > 0
  /\ u[1] \notin WhiteSpace /\ u[Len(u)] \notin WhiteSpace
  /\ LowerCased(u)
  /\ HasPrefix(u, HttpPrefix) \/ HasPrefix(u, HttpsPrefix)

OnlyLocationIs(k, text) ==
  /\ Cardinality(ChildrenTagged(k, "location")) = 1
  /\ \A c \in ChildrenTagged(k, "location") : textContent(doc, c) = text

C4_StreamUrlNormalized ==
  /\ \A i \in 1..Len(trackStreams) : UrlWellFormed(trackStreams[i].streamUrl)
  /\ \A i \in 1..Len(streams) : UrlWellFormed(streams[i].streamUrl)
  /\ \A i \in 1..Len(outcome.value) : UrlWellFormed(outcome.value[i].streamUrl)
  /\ pc = "tracks" =>
        /\ Len(trackStreams) = Len(ValidTracksDone)
        /\ \A j \in 1..Len(trackStreams) :
              /\ trackStreams[j].streamUrl = ExpectedUrl(ValidTracksDone[j])
              /\ OnlyLocationIs(ValidTracksDone[j], PaddedUpperHttp) =>
                    trackStreams[j].streamUrl = ExampleUrl
  /\ TrackJustEnded =>
        (OnlyLocationIs(tracks[trackIdx - 1], FtpX) => Len(url) = 0)

C4_Witness ==
  /\ pc = "done"
  /\ outcome.state = "resolved"
  /\ \E i \in 1..Len(outcome.value) : outcome.value[i].streamUrl = ExampleUrl
  /\ \E k \in ElementsTagged("track") : OnlyLocationIs(k, FtpX)

(***************************************************************************)
(* C5: the duration of every descriptor is -1 or a non-negative number,    *)
(* whatever the text of the track's duration children.                     *)
(***************************************************************************)
C5_DurationUnknownOrNonNegative ==
  \A i \in 1..Len(trackStreams) :
     \/ RatEq(trackStreams[i].duration, UnknownDuration)
     \/ RatNonNegative(trackStreams[i].duration)

(***************************************************************************)
(* C6: an accepted track whose annotation has the line 'bitrate: 128' gets *)
(* the bitrate 128; a non-numeric bitrate value, or none, leaves the       *)
(* bitrate unset.                                                          *)
(***************************************************************************)
Text128 == <<"1","2","8">>

C6_NumericBitratePopulated ==
  \A i \in 1..Len(trackStreams) :
     LET m == trackStreams[i].metas
     IN  IF HasMeta(m, BitrateKey) /\ m[BitrateKey] = Text128
         THEN trackStreams[i].bitrate = {128}
         ELSE (~HasMeta(m, BitrateKey) \/ isNaN(parseInt(m[BitrateKey]))) =>
                 trackStreams[i].bitrate = {}

(***************************************************************************)
(* C7: the final description of an accepted track is the annotation's      *)
(* streamDescription when the info text is non-empty and the annotation    *)
(* has a non-empty streamDescription; in every other case it is the info   *)
(* text unchanged, and the track is still emitted.                         *)
(***************************************************************************)
ExpectedDescription ==
  IF /\ Len(description) > 0
     /\ HasMeta(metas, StreamDescriptionKey)
     /\ Len(metas[StreamDescriptionKey]) > 0
  THEN metas[StreamDescriptionKey]
  ELSE description

C7_DescriptionPrecedence ==
  /\ (pc = "done" /\ Len(url) > 0) =>
        outcome.error \in {"", "XML error", "No streams found"}
  /\ TrackJustPushed =>
        /\ Len(trackStreams) = Len(ValidTracksDone)
        /\ LastPushed.description = ExpectedDescription

(***************************************************************************)
(* C8: each track element with a valid location contributes exactly one    *)
(* descriptor, and the descriptors are in document order, for every        *)
(* element tree, nested playlist, trackList and track elements included.   *)
(* Stated for the tracks inside a playlist's trackList and for the calls   *)
(* that run to their end.                                                  *)
(***************************************************************************)
RECURSIVE Ascending(_)
Ascending(S) == IF S = {} THEN <<>> ELSE <<SetMin(S)>> \o Ascending(S \ {SetMin(S)})

C8_OneDescriptorPerValidTrack ==
  (pc = "done" /\ WellFormed /\ outcome.error # "TypeError") =>
     /\ Len(streams) = Cardinality(ValidTracksOfPlaylists)
     /\ \A j \in 1..Len(streams) :
           j <= Cardinality(ValidTracksOfPlaylists) =>
              streams[j].streamUrl = ExpectedUrl(Ascending(ValidTracksOfPlaylists)[j])

(***************************************************************************)
(* C9: while a track's children are scanned, the accumulated URL is the    *)
(* normalized value of the last valid HTTP(S) location child seen so far;  *)
(* an invalid location leaves that URL and every other accumulated field   *)
(* unchanged, so a track with an earlier valid location and a later        *)
(* invalid one is accepted with the earlier URL.                           *)
(***************************************************************************)
ValidLocationsDone ==
  {j \in DoneTagged("location") : HttpLocation(textContent(doc, children[j]))}

C9_UrlIsLastValidLocation ==
  pc = "children" =>
     url = IF ValidLocationsDone = {} THEN <<>>
           ELSE NormalizedLocation(textContent(doc, children[SetMax(ValidLocationsDone)]))

AtInvalidLocation ==
  /\ pc = "children"
  /\ childIdx <= Len(children)
  /\ doc[child].tag = "location"
  /\ ~HttpLocation(textContent(doc, child))

C9_InvalidLocationChangesNothing ==
  AtInvalidLocation => UNCHANGED <<url, title, metas, description, duration>>

C9_AcceptedWithEarlierUrl ==
  (TrackJustEnded /\ HasValidLocation(tracks[trackIdx - 1])) =>
     /\ Len(trackStreams) > 0
     /\ LastPushed.streamUrl = ExpectedUrl(tracks[trackIdx - 1])

C9_LocationScan ==
  /\ [](C9_UrlIsLastValidLocation /\ C9_AcceptedWithEarlierUrl)
  /\ [][C9_InvalidLocationChangesNothing]_vars

C9_Witness ==
  /\ TrackJustPushed
  /\ LET ended == tracks[trackIdx - 1]
         kids == childNodes(doc, ended)
     IN  \E i, j \in 1..Len(kids) :
            /\ i < j
            /\ kids[i] = SetMax(ValidLocationsOf(ended))
            /\ doc[kids[j]].tag = "location"
            /\ LastPushed.streamUrl = NormalizedLocation(textContent(doc, kids[i]))

(***************************************************************************)
(* C10: extractMetasFromAnnotation never fails and returns one entry per   *)
(* distinct camel-cased key among the lines that contain ':': the key is   *)
(* the trimmed, camel-cased text before the first ':', the value the       *)
(* trimmed text after the first ':' (later colons kept), the last line of  *)
(* a key wins, lines without ':' give nothing; the metas of a track's last *)
(* annotation child replace those of the earlier ones.                     *)
(***************************************************************************)
\* the lines of a text: its maximal intervals <<i, j>> free of line breaks
LinesOf(s) ==
  {ln \in (1..(Len(s) + 1)) \X (0..Len(s)) :
     /\ ln[2] >= ln[1] - 1
     /\ \A k \in ln[1]..ln[2] : s[k] \notin LineBreaks
     /\ (ln[1] = 1 \/ s[ln[1] - 1] \in LineBreaks)
     /\ (ln[2] = Len(s) \/ s[ln[2] + 1] \in LineBreaks)}

ColonsIn(s, ln) == {k \in ln[1]..ln[2] : s[k] = ":"}
ColonLines(s) == {ln \in LinesOf(s) : ColonsIn(s, ln) # {}}
KeyOfLine(s, ln) == camelize(Stripped(SubSeq(s, ln[1], SetMin(ColonsIn(s, ln)) - 1)))
ValueOfLine(s, ln) == Stripped(SubSeq(s, SetMin(ColonsIn(s, ln)) + 1, ln[2]))

IsMetasOf(m, s) ==
  /\ DOMAIN m = {KeyOfLine(s, ln) : ln \in ColonLines(s)}
  /\ \A ln \in ColonLines(s) :
        (\A other \in ColonLines(s) :
            KeyOfLine(s, other) = KeyOfLine(s, ln) => other[1] <= ln[1])
        => m[KeyOfLine(s, ln)] = ValueOfLine(s, ln)

LastAnnotationText == textContent(doc, children[SetMax(DoneTagged("annotation"))])

C10_MetasOfLastAnnotation ==
  pc = "children" =>
     IF DoneTagged("annotation") = {}
     THEN metas = EmptyMetas
     ELSE /\ IsMetasOf(metas, Stripped(LastAnnotationText))
          /\ IsMetasOf(extractMetasFromAnnotation(LastAnnotationText), LastAnnotationText)

C10_Witness ==
  /\ pc = "children"
  /\ Cardinality(DoneTagged("annotation")) > 1
  /\ \E j \in DoneTagged("annotation") :
        DOMAIN extractMetasFromAnnotation(textContent(doc, children[j])) \ DOMAIN metas # {}
  /\ Cardinality(ColonLines(LastAnnotationText)) > Cardinality(DOMAIN metas)
  /\ \E k \in DOMAIN metas : Contains(metas[k], ":")

====
